---- MODULE Spec2Model ----
(***************************************************************************)
(* Model of the densmap analysis core: grid index geometry (densmap.rs),   *)
(* the neighbour smoother (average.rs), the percentile / radius heuristic  *)
(* (analysis/radial_density.rs) and the curve resampler (graphdata.rs);    *)
(* the autocorrelation (analysis/autocorrelation.rs), the binary grid      *)
(* codec (densmap.rs), the batch loop of main.rs, the interface search     *)
(* along one angle (analysis/sample_interface.rs) and the radial density   *)
(* distribution (analysis/radial_density.rs); the worker threads of the    *)
(* smoother (average.rs).                                                  *)
(*                                                                         *)
(* f64 values are modelled exactly: finite numbers are integers in a fixed *)
(* unit or normalised fractions <<num, den>>; NaN and infinity are tagged  *)
(* values where the code can meet them.  Floating point rounding is not    *)
(* modelled.  A Rust panic (index out of bounds, unwrap on None, usize     *)
(* underflow) is the outcome [tag |-> "Panic"].                            *)
(***************************************************************************)
EXTENDS Integers, Sequences, FiniteSets, TLC

VARIABLES
    pc,             \* position of the caller: which operation has run
    shape,          \* Shape = [nx, ny] handed to the index functions
    i,              \* 1D index handed to index2tuple
    tuple,          \* Option<(usize, usize)> returned by index2tuple
    index,          \* Option<usize> returned by tuple2index
    values,         \* slice handed to get_percentile_values
    lower,          \* lower percentile requested
    upper,          \* upper percentile requested
    percentiles,    \* Result<(T, T), String> of get_percentile_values
    radial_density, \* Histogram {x, y} handed to get_radius_from_distribution
    radius_result,  \* Result<f64, String> of get_radius_from_distribution
    densmap,        \* DensMap handed to the smoother
    radius,         \* smoothing radius
    sieve,          \* Vec<(isize, isize)> built by get_averaging_bin_sieve
    neighbours,     \* Vec<Vec<usize>> built by get_system_bin_neighbours
    smoothed,       \* DensMap returned by smoothen_data_of_bins_within_radius
    bins,           \* index list handed to average_value_of_bins
    average,        \* f64 returned by average_value_of_bins
    graph,          \* the curve (Histogram or Graph) that is resampled
    xs,             \* the x values it is resampled onto
    resampled,      \* what resample returned
    series,         \* the curves handed to calc_autocorrelation (their y values)
    ci,             \* outer loop index i of calc_autocorrelation
    cj,             \* inner loop index j of calc_autocorrelation
    sums,           \* the accumulator `values` of calc_autocorrelation
    autocorrelation, \* Vec<f64> returned by calc_autocorrelation
    path_ext,       \* extension of the path handed to write_densmap / read_densmap
    written,        \* the (DensMap, time) handed to write_densmap
    file,           \* bytes of the file at that path, None while it does not exist
    write_result,   \* Result<(), io::Error> of write_densmap
    read_result,    \* Result<(DensMap, f64), io::Error> of read_densmap
    filenames,      \* main: the files of the batch, by what each one holds
    fi,             \* main: number of loop iterations completed
    radius_time_series,    \* main: radius of every successful time step
    times,                 \* main: time of every successful time step
    contact_line_per_time, \* main: contact line of every successful time step
    traced,         \* main: the time steps sample_interface was called for
    main_result,    \* main: how the loop was left early, NotRun otherwise
    trace_map,      \* DensMap handed to sample_interface_at_angle
    angle,          \* the angle, as its cosine and sine
    base_radius,    \* the radius the search starts from
    walk_radius,    \* `radius` of the two search loops
    direction,      \* Direction chosen by get_initial_radius_and_direction
    samples,        \* radii the while loop has sampled, in order
    stop,           \* how the while loop was left
    radial_map,     \* DensMap handed to get_radial_density_distribution
    distribution,   \* Histogram returned by get_radial_density_distribution
    pending,        \* bins whose task no worker has run yet in the current par_iter
    nb_slots,       \* output slots of the collect in get_system_bin_neighbours
    avg_slots       \* output slots of the collect in get_averaged_system

indexVars == <<shape, i, tuple, index>>
percVars == <<values, lower, upper, percentiles>>
radVars == <<radial_density, radius_result>>
smoothVars == <<densmap, radius, sieve, neighbours, smoothed, bins, average>>
resampleVars == <<graph, xs, resampled>>
autoVars == <<series, ci, cj, sums, autocorrelation>>
coreVars == <<indexVars, percVars, radVars, smoothVars, resampleVars>>
codecVars == <<path_ext, written, file, write_result, read_result>>
batchVars == <<filenames, fi, radius_time_series, times, contact_line_per_time,
               traced, main_result>>
traceVars == <<trace_map, angle, base_radius, walk_radius, direction, samples, stop>>
distVars == <<radial_map, distribution>>
parVars == <<pending, nb_slots, avg_slots>>
laterVars == <<autoVars, codecVars, batchVars, traceVars, distVars, parVars>>
vars == <<pc, coreVars, laterVars>>

(* ------------------------------------------------------------------ *)
(* Bounds of the model                                                  *)
(* ------------------------------------------------------------------ *)
MaxN == 3
OverIndex == 2
MaxVals == 3
MaxHist == 7
MaxRadius == 3
DataMod == 3
MaxBins == 2
MaxData == 3
MaxX == 3
MaxPoints == 3
MaxTargets == 2

(* ------------------------------------------------------------------ *)
(* Rust values                                                          *)
(* ------------------------------------------------------------------ *)
None == [some |-> FALSE]
Some(v) == [some |-> TRUE, val |-> v]
Panic == [tag |-> "Panic"]
NotRun == [tag |-> "NotRun"]
Returned(v) == [tag |-> "Returned", val |-> v]
Ok(v) == [tag |-> "Ok", val |-> v]
Err(m) == [tag |-> "Err", msg |-> m]

\* An f64 that may be non-finite: <<"fin", v>>, <<"nan", 0>>, <<"inf", sign>>.
F(v) == <<"fin", v>>
NaN == <<"nan", 0>>
PosInf == <<"inf", 1>>
is_finite(f) == f[1] = "fin"

\* A finite f64 that is not an integer of the unit: the fraction <<num, den>>,
\* den > 0, in lowest terms.
RECURSIVE Gcd(_, _)
Gcd(a, b) == IF b = 0 THEN a ELSE Gcd(b, a % b)
Abs(a) == IF a < 0 THEN -a ELSE a
Rat(n, d) ==
    LET g == Gcd(Abs(n), Abs(d))
        sg == IF d < 0 THEN -1 ELSE 1
    IN <<(sg * n) \div g, (sg * d) \div g>>

(* ------------------------------------------------------------------ *)
(* densmap.rs: index geometry                                           *)
(* ------------------------------------------------------------------ *)
index2tuple_swapped(k, s) ==
    IF k < s[1] * s[2] THEN Some(<<k % s[2], k \div s[2]>>) ELSE None

index2tuple(k, s) ==
    IF k < s[1] * s[2] THEN Some(<<k % s[1], k \div s[1]>>) ELSE None

tuple2index(ix, iy, s) ==
    IF ix >= 0 /\ ix < s[1] /\ iy >= 0 /\ iy < s[2]
    THEN Some(iy * s[1] + ix)
    ELSE None

Shapes == (0..MaxN) \X (0..MaxN)

IdleIndex == shape = <<0, 0>> /\ i = 0 /\ tuple = None /\ index = None

IdlePerc == values = <<>> /\ lower = 0 /\ upper = 0 /\ percentiles = NotRun

IdleRad == radial_density = [x |-> <<>>, y |-> <<>>] /\ radius_result = NotRun

EmptyDensMap ==
    [bin_size |-> <<1, 1, 0>>, origin |-> <<0, 0>>, shape |-> <<0, 0>>,
     center |-> <<0, 0>>, data |-> <<>>]

IdleResample ==
    graph = [variant |-> "Histogram", x |-> <<>>, y |-> <<>>] /\ xs = <<>> /\ resampled = NotRun

IdleSmooth ==
    /\ densmap = EmptyDensMap /\ radius = 0 /\ sieve = <<>> /\ neighbours = <<>>
    /\ smoothed = EmptyDensMap /\ bins = <<>> /\ average = <<0, 1>>

IdleAuto ==
    series = <<>> /\ ci = 0 /\ cj = 0 /\ sums = <<>> /\ autocorrelation = NotRun

IdleCore == IdleIndex /\ IdlePerc /\ IdleRad /\ IdleSmooth /\ IdleResample

IdleCodec ==
    /\ path_ext = "" /\ written = [densmap |-> EmptyDensMap, time |-> 0]
    /\ file = None /\ write_result = NotRun /\ read_result = NotRun

IdleBatch ==
    /\ filenames = <<>> /\ fi = 0 /\ radius_time_series = <<>> /\ times = <<>>
    /\ contact_line_per_time = <<>> /\ traced = <<>> /\ main_result = NotRun

IdleTrace ==
    /\ trace_map = EmptyDensMap /\ angle = [cos |-> <<1, 1>>, sin |-> <<0, 1>>]
    /\ base_radius = 0 /\ walk_radius = 0 /\ direction = "None"
    /\ samples = <<>> /\ stop = "None"

IdleDist == radial_map = EmptyDensMap /\ distribution = NotRun

IdlePar == pending = {} /\ nb_slots = <<>> /\ avg_slots = <<>>

IdleLater == IdleAuto /\ IdleCodec /\ IdleBatch /\ IdleTrace /\ IdleDist /\ IdlePar

InitIndex ==
    /\ pc = "index_start"
    /\ shape \in Shapes
    /\ i = 0 /\ tuple = None /\ index = None
    /\ IdlePerc /\ IdleRad /\ IdleSmooth /\ IdleResample /\ IdleLater

CallIndex2Tuple ==
    /\ pc = "index_start"
    /\ \E k \in 0..(shape[1] * shape[2] + OverIndex) :
        /\ i' = k
        /\ tuple' = index2tuple(k, shape)
    /\ pc' = "index2tuple_done"
    /\ UNCHANGED <<shape, index, percVars, radVars, smoothVars, resampleVars, laterVars>>

CallTuple2Index ==
    /\ pc = "index2tuple_done"
    /\ tuple.some
    /\ index' = tuple2index(tuple.val[1], tuple.val[2], shape)
    /\ pc' = "tuple2index_done"
    /\ UNCHANGED <<shape, i, tuple, percVars, radVars, smoothVars, resampleVars, laterVars>>

NextIndex == CallIndex2Tuple \/ CallTuple2Index

SpecIndex == InitIndex /\ [][NextIndex]_vars

(* C1: for every shape and every i < nx*ny, index2tuple(i) is a tuple that
   tuple2index maps back to Some(i); for every i >= nx*ny, index2tuple(i)
   is None. *)
C1_RoundTrip ==
    /\ pc \in {"index2tuple_done", "tuple2index_done"} =>
        (tuple.some <=> i < shape[1] * shape[2])
    /\ pc = "tuple2index_done" => index = Some(i)

C1_Witness ==
    /\ pc = "tuple2index_done"
    /\ shape[1] > 1 /\ shape[1] # shape[2]
    /\ tuple.val[1] > 0 /\ tuple.val[2] > 0
    /\ index = Some(i)

(* ------------------------------------------------------------------ *)
(* analysis/radial_density.rs: percentile values                        *)
(* ------------------------------------------------------------------ *)
Values == {0, 1, 2, 3}
Percentiles == {-1, 0, 10, 20, 80, 90, 100, 101}

\* The array of the unit test, reversed (as the test gives it), sorted, and shuffled.
TestVectors ==
    { <<3, 2, 2, 2, 2, 2, 2, 1, 1, 0>>,
      <<0, 1, 1, 2, 2, 2, 2, 2, 2, 3>>,
      <<2, 0, 2, 1, 2, 3, 2, 1, 2, 2>> }

SeqsUpTo(S, n) == UNION { [1..k -> S] : k \in 0..n }

\* (0.01 * p * n).round() as usize: half away from zero, a negative value saturates to 0.
round_index(p, n) == IF p * n >= 0 THEN (p * n + 50) \div 100 ELSE 0

\* sort_by(partial_cmp) on values that all compare.
sorted(vs) == SortSeq(vs, LAMBDA a, b : a < b)

\* sorted_values[k] with k a 0-based usize: out of bounds panics.
percentile_pair(sv, ilower, iupper) ==
    IF ilower < Len(sv) /\ iupper < Len(sv)
    THEN Ok(<<sv[ilower + 1], sv[iupper + 1]>>)
    ELSE Panic

get_percentile_values_no_upper_check(vs, lo, up) ==
    IF vs = <<>> THEN Err("cannot compute percentile values from an empty array")
    ELSE IF lo < 0 \/ lo > 100 THEN Err("lower percentile value must be between 0 and 100")
    ELSE percentile_pair(sorted(vs), round_index(lo, Len(vs)), round_index(up, Len(vs)))

get_percentile_values(vs, lo, up) ==
    IF vs = <<>> THEN Err("cannot compute percentile values from an empty array")
    ELSE IF lo < 0 \/ lo > 100 THEN Err("lower percentile value must be between 0 and 100")
    ELSE IF up < 0 \/ up > 100 THEN Err("upper percentile value must be between 0 and 100")
    ELSE percentile_pair(sorted(vs), round_index(lo, Len(vs)), round_index(up, Len(vs)))

InitPercentile ==
    /\ pc = "percentile_start"
    /\ values \in SeqsUpTo(Values, MaxVals) \cup TestVectors
    /\ lower \in Percentiles
    /\ upper \in Percentiles
    /\ percentiles = NotRun
    /\ IdleIndex /\ IdleRad /\ IdleSmooth /\ IdleResample /\ IdleLater

CallGetPercentileValues ==
    /\ pc = "percentile_start"
    /\ percentiles' = get_percentile_values(values, lower, upper)
    /\ pc' = "percentile_done"
    /\ UNCHANGED <<values, lower, upper, indexVars, radVars, smoothVars, resampleVars, laterVars>>

NextPercentile == CallGetPercentileValues

SpecPercentile == InitPercentile /\ [][NextPercentile]_vars

(* C4: get_percentile_values returns a typed error, not a crash and not a
   value, when the input is empty or when the lower or the upper percentile
   lies outside [0, 100]. *)
C4_InvalidInputIsErr ==
    (/\ pc = "percentile_done"
     /\ \/ values = <<>>
        \/ lower < 0 \/ lower > 100
        \/ upper < 0 \/ upper > 100)
    => percentiles.tag = "Err"

C4_Witness ==
    /\ pc = "percentile_done"
    /\ values # <<>>
    /\ lower \in 0..100
    /\ upper > 100
    /\ percentiles.tag = "Err"

\* v is the element at 0-based position k of the ascending-sorted vs.
IsOrderStatistic(vs, k, v) ==
    /\ \E n \in 1..Len(vs) : vs[n] = v
    /\ Cardinality({n \in 1..Len(vs) : vs[n] < v}) <= k
    /\ k < Cardinality({n \in 1..Len(vs) : vs[n] <= v})

(* C5: for a non-empty input in any order and percentiles in [0, 100],
   get_percentile_values returns the elements of the ascending-sorted input at
   index round(0.01*p*n); for the permutations of [0,1,1,2,2,2,2,2,2,3] the
   20th/80th percentile values are 1 and 2. *)
C5_OrderStatistic ==
    (/\ pc = "percentile_done"
     /\ values # <<>>
     /\ lower \in 0..100
     /\ upper \in 0..100)
    => /\ percentiles.tag = "Ok"
       /\ IsOrderStatistic(values, round_index(lower, Len(values)), percentiles.val[1])
       /\ IsOrderStatistic(values, round_index(upper, Len(values)), percentiles.val[2])
       /\ (values \in TestVectors /\ lower = 20 /\ upper = 80)
            => percentiles.val = <<1, 2>>

\* The part of C5 the code satisfies: whenever a pair is returned it is the pair
\* of order statistics at round(0.01*p*n).
C5_OkIsOrderStatistic ==
    (pc = "percentile_done" /\ percentiles.tag = "Ok")
    => /\ IsOrderStatistic(values, round_index(lower, Len(values)), percentiles.val[1])
       /\ IsOrderStatistic(values, round_index(upper, Len(values)), percentiles.val[2])
       /\ (values \in TestVectors /\ lower = 20 /\ upper = 80)
            => percentiles.val = <<1, 2>>

(* ------------------------------------------------------------------ *)
(* analysis/radial_density.rs: radius from the radial distribution      *)
(* ------------------------------------------------------------------ *)
HistValues == {F(0), F(1), F(2), NaN}

\* values.iter().fold(0.0, |acc, &v| acc.max(v))
RECURSIVE fold_max(_, _)
fold_max(acc, vs) ==
    IF vs = <<>> THEN acc
    ELSE fold_max(IF Head(vs) > acc THEN Head(vs) ELSE acc, Tail(vs))

\* Keeps v >= 0.01 * perc * max, compared exactly as 100 * v >= perc * max.
cut_bins_below_percentage_of_max(vs, perc) ==
    LET max == fold_max(0, vs)
        keep(v) == 100 * v >= perc * max
    IN SelectSeq(vs, keep)

\* radial_density.y.into_iter().filter(|v| v.is_finite()), as plain numbers.
finite_values(ys) ==
    LET fin == SelectSeq(ys, is_finite)
    IN [k \in 1..Len(fin) |-> fin[k][2]]

\* density.iter().rposition(|&v| v >= mid_density), with 2 * mid_density = mid2.
rposition_at_least(density, mid2) ==
    LET hits == {k \in 1..Len(density) : 2 * density[k] >= mid2}
    IN IF hits = {} THEN None
       ELSE Some((CHOOSE k \in hits : \A m \in hits : m <= k) - 1)

get_radius_from_distribution(h) ==
    LET density == finite_values(h.y)
        density_nonzero == cut_bins_below_percentage_of_max(density, 1)
        pv == get_percentile_values(density_nonzero, 10, 90)
    IN IF pv.tag # "Ok" THEN pv
       ELSE LET pos == rposition_at_least(density, pv.val[1] + pv.val[2])
            IN IF ~pos.some THEN Panic
               ELSE IF pos.val < Len(h.x) THEN Ok(h.x[pos.val + 1])
               ELSE Panic

\* Histograms as get_radial_density_distribution builds them: x strictly
\* increasing bin centres (here 1, 2, ..), one y per x.
Histograms ==
    { [x |-> [k \in 1..Len(ys) |-> k], y |-> ys] : ys \in SeqsUpTo(HistValues, MaxHist) }

InitRadius ==
    /\ pc = "radius_start"
    /\ radial_density \in Histograms
    /\ radius_result = NotRun
    /\ IdleIndex /\ IdlePerc /\ IdleSmooth /\ IdleResample /\ IdleLater

CallGetRadiusFromDistribution ==
    /\ pc = "radius_start"
    /\ radius_result' = get_radius_from_distribution(radial_density)
    /\ pc' = "radius_done"
    /\ UNCHANGED <<radial_density, indexVars, percVars, smoothVars, resampleVars, laterVars>>

NextRadius == CallGetRadiusFromDistribution

SpecRadius == InitRadius /\ [][NextRadius]_vars

\* The bins of y that remain after dropping non-finite values and values
\* below 1% of the maximum.
RemainingBins(ys) ==
    LET fin == {k \in 1..Len(ys) : is_finite(ys[k])}
        max == IF \E k \in fin : ys[k][2] > 0
               THEN CHOOSE m \in {ys[k][2] : k \in fin} : \A k \in fin : ys[k][2] <= m
               ELSE 0
    IN {k \in fin : 100 * ys[k][2] >= max}

(* C2: get_radius_from_distribution returns Ok whenever at least one bin
   remains after the filtering, the typed error exactly when none remains,
   and never aborts. *)
C2_OkOrTypedError ==
    pc = "radius_done" =>
        /\ radius_result.tag # "Panic"
        /\ (RemainingBins(radial_density.y) # {} => radius_result.tag = "Ok")
        /\ (RemainingBins(radial_density.y) = {} <=> radius_result.tag = "Err")

\* y >= mid for a bin of the original histogram, with 2 * mid = mid2.
AtLeastMid(f, mid2) ==
    \/ f = PosInf
    \/ is_finite(f) /\ 2 * f[2] >= mid2

\* The outermost bin of the original histogram whose y is >= the midpoint of the
\* 10th and 90th percentile values of the remaining bins.
OutermostBinAtLeastMid(h) ==
    LET rem == RemainingBins(h.y)
        n == Cardinality(rem)
        at(k) == CHOOSE v \in {h.y[m][2] : m \in rem} :
                    /\ Cardinality({m \in rem : h.y[m][2] < v}) <= k
                    /\ k < Cardinality({m \in rem : h.y[m][2] <= v})
        mid2 == at(round_index(10, n)) + at(round_index(90, n))
        hits == {k \in 1..Len(h.y) : AtLeastMid(h.y[k], mid2)}
    IN CHOOSE k \in hits : \A m \in hits : m <= k

(* C3: when get_radius_from_distribution succeeds, the radius is the x-value
   of the outermost bin of the original histogram whose y is >= the midpoint
   of the 10th and 90th percentile values, also when some y are non-finite. *)
C3_OutermostBin ==
    (pc = "radius_done" /\ radius_result.tag = "Ok")
    => radius_result.val = radial_density.x[OutermostBinAtLeastMid(radial_density)]

\* What the code satisfies: C3 for histograms whose y-values are all finite.
C3_OutermostBinWhenFinite ==
    (/\ pc = "radius_done"
     /\ radius_result.tag = "Ok"
     /\ \A k \in 1..Len(radial_density.y) : is_finite(radial_density.y[k]))
    => radius_result.val = radial_density.x[OutermostBinAtLeastMid(radial_density)]

(* ------------------------------------------------------------------ *)
(* average.rs: the neighbour smoother                                   *)
(* ------------------------------------------------------------------ *)
\* (a / b).ceil() as isize for b > 0.
ceil_div(a, b) == -((-a) \div b)

\* The candidates of the two nested loops, ix in -nx..=nx outermost, in loop
\* order; either range is empty when its bound is negative.
sieve_candidates(nx, ny) ==
    IF nx < 0 \/ ny < 0 THEN <<>>
    ELSE [k \in 1..((2 * nx + 1) * (2 * ny + 1)) |->
            <<((k - 1) \div (2 * ny + 1)) - nx, ((k - 1) % (2 * ny + 1)) - ny>>]

get_averaging_bin_sieve_strict(r, bin_size) ==
    LET dx == bin_size[1]
        dy == bin_size[2]
        within(c) == (c[1] * dx) * (c[1] * dx) + (c[2] * dy) * (c[2] * dy) < r * r
    IN SelectSeq(sieve_candidates(ceil_div(r, dx), ceil_div(r, dy)), within)

get_averaging_bin_sieve(r, bin_size) ==
    LET dx == bin_size[1]
        dy == bin_size[2]
        within(c) == (c[1] * dx) * (c[1] * dx) + (c[2] * dy) * (c[2] * dy) <= r * r
    IN SelectSeq(sieve_candidates(ceil_div(r, dx), ceil_div(r, dy)), within)

get_bin_neighbours_wrapping(k, s, sv) ==
    LET t == index2tuple(k, s).val
        inside(c) == t[2] + c[2] >= 0 /\ t[2] + c[2] < s[2]
                     /\ (t[2] + c[2]) * s[1] + t[1] + c[1] >= 0
                     /\ (t[2] + c[2]) * s[1] + t[1] + c[1] < s[1] * s[2]
        kept == SelectSeq(sv, inside)
    IN [n \in 1..Len(kept) |-> (t[2] + kept[n][2]) * s[1] + t[1] + kept[n][1]]

\* index2tuple(i, shape).unwrap(), then filter_map of tuple2index over the sieve.
get_bin_neighbours(k, s, sv) ==
    LET t == index2tuple(k, s).val
        inside(c) == tuple2index(t[1] + c[1], t[2] + c[2], s).some
        kept == SelectSeq(sv, inside)
    IN [n \in 1..Len(kept) |-> tuple2index(t[1] + kept[n][1], t[2] + kept[n][2], s).val]

get_system_bin_neighbours(r, bin_size, s) ==
    LET sv == get_averaging_bin_sieve(r, bin_size)
    IN [k \in 1..(s[1] * s[2]) |-> get_bin_neighbours(k - 1, s, sv)]

RECURSIVE sum_of_bins(_, _)
sum_of_bins(data, bs) ==
    IF bs = <<>> THEN 0 ELSE data[Head(bs) + 1] + sum_of_bins(data, Tail(bs))

average_value_of_bins_off_by_one(data, bs) ==
    IF bs = <<>> THEN <<0, 1>> ELSE Rat(sum_of_bins(data, bs), Len(bs) + 1)

average_value_of_bins(data, bs) ==
    IF bs = <<>> THEN <<0, 1>> ELSE Rat(sum_of_bins(data, bs), Len(bs))

get_averaged_system(data, nb) ==
    [k \in 1..Len(nb) |-> average_value_of_bins(data, nb[k])]

smoothen_data_of_bins_within_radius(dm, r) ==
    [dm EXCEPT !.data =
        get_averaged_system(dm.data, get_system_bin_neighbours(r, dm.bin_size, dm.shape))]

BinSizes == {1, 2}
Radii == (-2)..MaxRadius

\* data of n bins: the uniform grids (a = 0) and ramps.
DataOf(n, a, b) == [k \in 1..n |-> (a * k + b) % DataMod]

DensMaps ==
    { [bin_size |-> <<dx, dy, 0>>, origin |-> <<0, 0>>, shape |-> s,
       center |-> <<1, 1>>, data |-> DataOf(s[1] * s[2], a, b)] :
        dx \in BinSizes, dy \in BinSizes, s \in Shapes,
        a \in {0, 1}, b \in 0..(DataMod - 1) }

\* A plain Vec<f64> of data, as a grid of one row.
DataRows ==
    { [EmptyDensMap EXCEPT !.shape = <<Len(d), 1>>, !.data = d] :
        d \in SeqsUpTo(0..(DataMod - 1), MaxData) }

InitSmooth ==
    /\ \/ pc = "smooth_start" /\ densmap \in DensMaps /\ radius \in Radii
       \/ pc = "average_start" /\ densmap \in DataRows /\ radius = 0
    /\ sieve = <<>> /\ neighbours = <<>>
    /\ smoothed = EmptyDensMap /\ bins = <<>> /\ average = <<0, 1>>
    /\ IdleIndex /\ IdlePerc /\ IdleRad /\ IdleResample /\ IdleLater

CallSmoothen ==
    /\ pc = "smooth_start"
    /\ sieve' = get_averaging_bin_sieve(radius, densmap.bin_size)
    /\ neighbours' = get_system_bin_neighbours(radius, densmap.bin_size, densmap.shape)
    /\ smoothed' = smoothen_data_of_bins_within_radius(densmap, radius)
    /\ pc' = "smooth_done"
    /\ UNCHANGED <<densmap, radius, bins, average, indexVars, percVars, radVars, resampleVars, laterVars>>

CallAverageValueOfBins ==
    /\ pc = "average_start"
    /\ \E bs \in SeqsUpTo(0..(Len(densmap.data) - 1), MaxBins) :
        /\ bins' = bs
        /\ average' = average_value_of_bins(densmap.data, bs)
    /\ pc' = "average_done"
    /\ UNCHANGED <<densmap, radius, sieve, neighbours, smoothed,
                   indexVars, percVars, radVars, resampleVars, laterVars>>

NextSmooth == CallSmoothen \/ CallAverageValueOfBins

SpecSmooth == InitSmooth /\ [][NextSmooth]_vars

SeqToSet(sq) == {sq[k] : k \in 1..Len(sq)}

ContainsZeroOffset(sv) == <<0, 0>> \in SeqToSet(sv)

SymmetricSieve(sv) ==
    \A c \in SeqToSet(sv) :
        <<-c[1], c[2]>> \in SeqToSet(sv) /\ <<c[1], -c[2]>> \in SeqToSet(sv)

(* C6 as stated: for all radii and all bin sizes with dx = dy the sieve
   contains the zero offset (0,0) and with every offset (di,dj) also
   (-di,dj) and (di,-dj). *)
C6_SieveAllRadii ==
    (pc = "smooth_done" /\ densmap.bin_size[1] = densmap.bin_size[2])
    => ContainsZeroOffset(sieve) /\ SymmetricSieve(sieve)

(* C6 amended: for all bin sizes with dx = dy the sieve is symmetric under
   negation of either axis for every radius, and contains the zero offset
   (0,0) for every radius r > -dx, in particular for every r >= 0. *)
C6_SieveNonNegativeRadius ==
    (pc = "smooth_done" /\ densmap.bin_size[1] = densmap.bin_size[2])
    => /\ SymmetricSieve(sieve)
       /\ radius > -densmap.bin_size[1] => ContainsZeroOffset(sieve)

C6_Witness ==
    /\ pc = "smooth_done"
    /\ densmap.bin_size[1] = densmap.bin_size[2]
    /\ radius > densmap.bin_size[1]
    /\ <<1, 1>> \in SeqToSet(sieve)
    /\ <<-1, 1>> \in SeqToSet(sieve)
    /\ <<0, 0>> \in SeqToSet(sieve)

\* The 1D indices of the in-grid positions (ix+di, iy+dj), (di,dj) in the sieve.
InGridNeighbours(k, s, sv) ==
    LET ix == k % s[1]
        iy == k \div s[1]
    IN { (iy + c[2]) * s[1] + (ix + c[1]) :
            c \in { d \in SeqToSet(sv) :
                      /\ 0 <= ix + d[1] /\ ix + d[1] < s[1]
                      /\ 0 <= iy + d[2] /\ iy + d[2] < s[2] } }

(* C7: for every bin of the grid get_bin_neighbours returns exactly the 1D
   indices of the sieve positions that lie inside [0,nx) x [0,ny): positions
   outside are discarded, never wrapped to another row or column, and no
   index is returned twice. *)
C7_NeighboursInGrid ==
    pc = "smooth_done" =>
        /\ Len(neighbours) = densmap.shape[1] * densmap.shape[2]
        /\ \A k \in 1..Len(neighbours) :
            /\ SeqToSet(neighbours[k]) = InGridNeighbours(k - 1, densmap.shape, sieve)
            /\ Cardinality(SeqToSet(neighbours[k])) = Len(neighbours[k])

\* A bin at the right edge of a grid of several rows whose sieve reaches past the edge.
C7_Witness ==
    /\ pc = "smooth_done"
    /\ densmap.shape[1] > 1 /\ densmap.shape[2] > 1
    /\ <<1, 0>> \in SeqToSet(sieve)
    /\ \E k \in 1..Len(neighbours) :
        /\ k % densmap.shape[1] = 0
        /\ k < Len(neighbours)
        /\ Len(neighbours[k]) < Len(sieve)
        /\ Len(neighbours[k]) > 1

RECURSIVE SumOver(_, _)
SumOver(data, sq) ==
    IF sq = <<>> THEN 0 ELSE data[sq[1] + 1] + SumOver(data, SubSeq(sq, 2, Len(sq)))

\* q is the arithmetic mean of the data at the indices sq (sq not empty).
IsMeanOf(q, data, sq) == q[2] > 0 /\ q[1] * Len(sq) = q[2] * SumOver(data, sq)

(* C8: the smoothed value of a bin is the arithmetic mean of the original
   values of its surviving neighbour bins and exactly 0.0 when there is none;
   average_value_of_bins of an empty list is 0.0, of a single index that
   bin's value, of N indices their mean. *)
C8_SmoothedIsMean ==
    /\ pc = "average_done" =>
        /\ bins = <<>> => average = <<0, 1>>
        /\ Len(bins) = 1 => average = <<densmap.data[bins[1] + 1], 1>>
        /\ bins # <<>> => IsMeanOf(average, densmap.data, bins)
    /\ pc = "smooth_done" =>
        \A k \in 1..Len(neighbours) :
            IF neighbours[k] = <<>>
            THEN smoothed.data[k] = <<0, 1>>
            ELSE IsMeanOf(smoothed.data[k], densmap.data, neighbours[k])

\* A boundary bin of a non-uniform grid whose mean is not a whole number.
C8_Witness ==
    /\ pc = "smooth_done"
    /\ \E k \in 1..Len(neighbours) :
        /\ Len(neighbours[k]) > 2
        /\ smoothed.data[k][2] > 1
        /\ smoothed.data[k] # <<densmap.data[k], 1>>

Uniform(data) == \A k \in 1..Len(data) : data[k] = data[1]

\* Every sieve offset of bin k (0-based) lands inside the grid.
Interior(k, s, sv) ==
    \A c \in SeqToSet(sv) :
        /\ 0 <= (k % s[1]) + c[1] /\ (k % s[1]) + c[1] < s[1]
        /\ 0 <= (k \div s[1]) + c[2] /\ (k \div s[1]) + c[2] < s[2]

SameGeometry(a, b) ==
    /\ a.bin_size = b.bin_size /\ a.origin = b.origin
    /\ a.shape = b.shape /\ a.center = b.center
    /\ Len(a.data) = Len(b.data)

(* C9 as stated: smoothing a uniform grid with any radius leaves the value of
   every interior bin unchanged and returns a grid of the same geometry and
   number of data values. *)
C9_UniformAnyRadius ==
    (pc = "smooth_done" /\ Uniform(densmap.data))
    => /\ SameGeometry(smoothed, densmap)
       /\ \A k \in 1..Len(densmap.data) :
            Interior(k - 1, densmap.shape, sieve)
            => smoothed.data[k] = <<densmap.data[k], 1>>

(* C9 amended: smoothing a uniform grid returns a grid of the same geometry
   and number of data values for every radius, and leaves the value of every
   interior bin unchanged for every radius r > -min(dx, dy), in particular
   for every r >= 0. *)
C9_UniformNonNegativeRadius ==
    (pc = "smooth_done" /\ Uniform(densmap.data))
    => /\ SameGeometry(smoothed, densmap)
       /\ (radius > -densmap.bin_size[1] /\ radius > -densmap.bin_size[2])
          => \A k \in 1..Len(densmap.data) :
                Interior(k - 1, densmap.shape, sieve)
                => smoothed.data[k] = <<densmap.data[k], 1>>

\* A uniform non-zero grid with an interior bin that has neighbours besides itself.
C9_Witness ==
    /\ pc = "smooth_done"
    /\ Uniform(densmap.data)
    /\ Len(sieve) > 1
    /\ \E k \in 1..Len(densmap.data) :
        /\ Interior(k - 1, densmap.shape, sieve)
        /\ densmap.data[k] > 0
        /\ smoothed.data[k] = <<densmap.data[k], 1>>

(* ------------------------------------------------------------------ *)
(* graphdata.rs: resampling a curve                                     *)
(* ------------------------------------------------------------------ *)
\* from_xs.binary_search_by(|x1| x1.partial_cmp(x).unwrap()) on strictly
\* ascending from_xs: Ok(i) at the match, else Err(i) at the insertion point.
binary_search(from_xs, x) ==
    IF \E k \in 1..Len(from_xs) : from_xs[k] = x
    THEN Ok((CHOOSE k \in 1..Len(from_xs) : from_xs[k] = x) - 1)
    ELSE Err(Cardinality({k \in 1..Len(from_xs) : from_xs[k] < x}))

\* One element of the map in interpolate_data. Indices are 0-based usize:
\* i - 2 below zero and an index at or past the length abort.
interpolate_at(from_xs, ys, x) ==
    LET r == binary_search(from_xs, x)
    IN IF r.tag = "Ok"
       THEN (IF r.val < Len(ys) THEN Returned(Rat(ys[r.val + 1], 1)) ELSE Panic)
       ELSE LET k == r.msg
                i0 == IF k = 0 THEN 0 ELSE IF k = Len(from_xs) THEN k - 2 ELSE k - 1
                i1 == IF k = 0 THEN 1 ELSE IF k = Len(from_xs) THEN k - 1 ELSE k
            IN IF i0 < 0 \/ i0 >= Len(from_xs) \/ i1 >= Len(from_xs)
                  \/ i0 >= Len(ys) \/ i1 >= Len(ys)
               THEN Panic
               ELSE LET x0 == from_xs[i0 + 1]
                        x1 == from_xs[i1 + 1]
                        y0 == ys[i0 + 1]
                        y1 == ys[i1 + 1]
                    IN Returned(Rat(y0 * (x1 - x) + y1 * (x - x0), x1 - x0))

interpolate_data(from_xs, ys, onto_xs) ==
    LET each == [n \in 1..Len(onto_xs) |-> interpolate_at(from_xs, ys, onto_xs[n])]
    IN IF \E n \in 1..Len(onto_xs) : each[n] = Panic
       THEN Panic
       ELSE Returned([n \in 1..Len(onto_xs) |-> each[n].val])

\* XYData::resample of Histogram and of Graph::{Carthesian, Polar}.
resample(g, onto_xs) ==
    LET ys == interpolate_data(g.x, g.y, onto_xs)
    IN IF ys = Panic THEN Panic
       ELSE CASE g.variant = "Histogram" ->
                    Returned([variant |-> "Histogram", x |-> onto_xs, y |-> ys.val])
              [] g.variant = "Carthesian" ->
                    Returned([variant |-> "Carthesian", x |-> onto_xs, y |-> ys.val])
              [] g.variant = "Polar" ->
                    Returned([variant |-> "Polar", x |-> onto_xs, y |-> ys.val])

Variants == {"Histogram", "Carthesian", "Polar"}
CurveValues == {0, 1, 3}

StrictlyAscending(sq) == \A k \in 1..(Len(sq) - 1) : sq[k] < sq[k + 1]

\* Source curves: strictly ascending x (in half units), one y per x.
Curves ==
    { [variant |-> v, x |-> sx, y |-> sy] :
        v \in Variants,
        sx \in {q \in SeqsUpTo(0..MaxX, MaxPoints) : StrictlyAscending(q)},
        sy \in SeqsUpTo(CurveValues, MaxPoints) }

\* The curve of the unit tests, x = [0,1,2,3] in half units, and its targets
\* [0.5,1.5,2.5] and [-0.5,4.0].
TestCurve == [variant |-> "Carthesian", x |-> <<0, 2, 4, 6>>, y |-> <<5, 1, 3, 0>>]
TestTargets == { <<1, 3, 5>>, <<-1, 8>> }

InitResample ==
    /\ pc = "resample_start"
    /\ \/ /\ graph \in {g \in Curves : Len(g.x) = Len(g.y)}
          /\ xs \in SeqsUpTo((-1)..(MaxX + 1), MaxTargets)
       \/ /\ graph = TestCurve
          /\ xs \in TestTargets
    /\ resampled = NotRun
    /\ IdleIndex /\ IdlePerc /\ IdleRad /\ IdleSmooth /\ IdleLater

CallResample ==
    /\ pc = "resample_start"
    /\ resampled' = resample(graph, xs)
    /\ pc' = "resample_done"
    /\ UNCHANGED <<graph, xs, indexVars, percVars, radVars, smoothVars, laterVars>>

NextResample == CallResample

SpecResample == InitResample /\ [][NextResample]_vars

\* q lies on the straight line through (x0, y0) and (x1, y1) at x.
OnLine(q, x0, y0, x1, y1, x) ==
    q[2] > 0 /\ q[1] * (x1 - x0) = q[2] * (y0 * (x1 - x) + y1 * (x - x0))

\* The value C10 gives for target x on source curve g.
ResampledValueOk(g, x, q) ==
    LET n == Len(g.x)
    IN IF \E k \in 1..n : g.x[k] = x
       THEN \E k \in 1..n : g.x[k] = x /\ q = <<g.y[k], 1>>
       ELSE IF n >= 1 /\ g.x[1] < x /\ x < g.x[n]
       THEN \E k \in 1..(n - 1) :
                /\ g.x[k] < x /\ x < g.x[k + 1]
                /\ OnLine(q, g.x[k], g.y[k], g.x[k + 1], g.y[k + 1], x)
       ELSE IF n >= 2 /\ x < g.x[1]
       THEN OnLine(q, g.x[1], g.y[1], g.x[2], g.y[2], x)
       ELSE IF n >= 2 /\ x > g.x[n]
       THEN OnLine(q, g.x[n - 1], g.y[n - 1], g.x[n], g.y[n], x)
       ELSE FALSE

ResampledAsClaimed ==
    /\ resampled.tag = "Returned"
    /\ resampled.val.variant = graph.variant
    /\ resampled.val.x = xs
    /\ Len(resampled.val.y) = Len(xs)
    /\ \A n \in 1..Len(xs) : ResampledValueOk(graph, xs[n], resampled.val.y[n])
    /\ (graph = TestCurve /\ xs = <<1, 3, 5>>)
        => resampled.val.y = << <<3, 1>>, <<2, 1>>, <<3, 2>> >>
    /\ (graph = TestCurve /\ xs = <<-1, 8>>)
        => resampled.val.y = << <<7, 1>>, <<-3, 1>> >>

(* C10: for a source curve with ascending x and every target x, resample
   returns the source y at a matching x, else the value on the line through
   the bracketing pair inside the range and through the two nearest boundary
   points outside it; the result has the same variant, x equal to the targets
   and one y per target. *)
C10_Resample ==
    pc = "resample_done" => ResampledAsClaimed

\* What the code satisfies: C10 for source curves of at least two points.
C10_ResampleTwoPoints ==
    (pc = "resample_done" /\ Len(graph.x) >= 2) => ResampledAsClaimed

\* ... and a curve with a point on every target, however short.
C10_ResampleAllMatching ==
    (pc = "resample_done" /\ \A n \in 1..Len(xs) : \E k \in 1..Len(graph.x) : graph.x[k] = xs[n])
    => ResampledAsClaimed

(* ------------------------------------------------------------------ *)
(* analysis/autocorrelation.rs: calc_autocorrelation                    *)
(* ------------------------------------------------------------------ *)
MaxCurves == 3

\* Number of points per curve and the y values the curves are drawn from.
CurveLens == {1, 2}
YValues == {-1, 0, 2}

\* y0.iter().zip(y1.iter()) stops at the shorter of the two sequences.
RECURSIVE dot_from(_, _, _)
dot_from(y0, y1, k) ==
    IF k > Len(y0) \/ k > Len(y1) THEN 0
    ELSE y0[k] * y1[k] + dot_from(y0, y1, k + 1)

dot(y0, y1) == dot_from(y0, y1, 1)

\* values[n] += a * b for every zipped (a, b), with n = j - i.
accumulate(vals, data, a, b) ==
    [vals EXCEPT ![(b - a) + 1] = @ + dot(data[a + 1], data[b + 1])]

\* f64 division of two fractions: x / 0 is NaN for x = 0 and an infinity
\* of the sign of x otherwise.
fdiv(a, b) ==
    IF b[1] = 0
    THEN IF a[1] = 0 THEN <<"nan", <<0, 1>>>>
         ELSE <<"inf", <<IF a[1] < 0 THEN -1 ELSE 1, 1>>>>
    ELSE <<"fin", Rat(a[1] * b[2], a[2] * b[1])>>

rescaled_values_by_len(vals) ==
    [k \in 1..Len(vals) |-> Rat(vals[k], Len(vals))]

\* v / (data.len() - i) for the (i, v) of values.into_iter().enumerate().
rescaled_values(vals) ==
    [k \in 1..Len(vals) |-> Rat(vals[k], Len(vals) - (k - 1))]

normalised_by_last(rescaled) ==
    IF Len(rescaled) = 0 THEN Panic
    ELSE Returned([k \in 1..Len(rescaled) |-> fdiv(rescaled[k], rescaled[Len(rescaled)])])

\* let max = rescaled_values[0] aborts on an empty vector; then v / max.
normalised(rescaled) ==
    IF Len(rescaled) = 0 THEN Panic
    ELSE Returned([k \in 1..Len(rescaled) |-> fdiv(rescaled[k], rescaled[1])])

Series ==
    UNION {[1..l -> [1..p -> YValues]] : l \in 0..MaxCurves, p \in CurveLens}

InitAutocorrelation ==
    /\ pc = "auto_loop"
    /\ series \in Series
    /\ ci = 0 /\ cj = 0
    /\ sums = [k \in 1..Len(series) |-> 0]
    /\ autocorrelation = NotRun
    /\ IdleCore /\ IdleCodec /\ IdleBatch /\ IdleTrace /\ IdleDist /\ IdlePar

\* One iteration of the inner loop `for j in i..data.len()`.
AccumulatePair ==
    /\ pc = "auto_loop"
    /\ ci < Len(series)
    /\ sums' = accumulate(sums, series, ci, cj)
    /\ IF cj + 1 < Len(series)
       THEN ci' = ci /\ cj' = cj + 1
       ELSE ci' = ci + 1 /\ cj' = ci + 1
    /\ pc' = "auto_loop"
    /\ UNCHANGED <<series, autocorrelation, coreVars, codecVars, batchVars, traceVars, distVars, parVars>>

\* After the loops: rescale, take the lag-0 value, normalise.
FinishAutocorrelation ==
    /\ pc = "auto_loop"
    /\ ci >= Len(series)
    /\ autocorrelation' = normalised(rescaled_values(sums))
    /\ pc' = "auto_done"
    /\ UNCHANGED <<series, ci, cj, sums, coreVars, codecVars, batchVars, traceVars, distVars, parVars>>

NextAutocorrelation == AccumulatePair \/ FinishAutocorrelation

SpecAutocorrelation == InitAutocorrelation /\ [][NextAutocorrelation]_vars

\* The pair (a, a + n) has been visited by the loops at position (ci, cj).
Counted(a, n) == a < ci \/ (a = ci /\ a + n < cj)

\* Sum of the dot products of the visited pairs at distance n.
RECURSIVE LagSum(_, _)
LagSum(n, a) ==
    IF a + n >= Len(series) THEN 0
    ELSE (IF Counted(a, n) THEN dot(series[a + 1], series[a + n + 1]) ELSE 0)
         + LagSum(n, a + 1)

NonDegenerate == Len(series) >= 1 /\ LagSum(0, 0) # 0

\* C11: for a series of at least one curve whose lag-0 sum of squares is
\* not zero, calc_autocorrelation returns one entry per curve and the first
\* entry (lag 0) is exactly 1.
C11_LagZeroIsOne ==
    (pc = "auto_done" /\ NonDegenerate) =>
        /\ autocorrelation.tag = "Returned"
        /\ Len(autocorrelation.val) = Len(series)
        /\ autocorrelation.val[1] = <<"fin", <<1, 1>>>>

C11_Witness ==
    /\ pc = "auto_done" /\ NonDegenerate /\ Len(series) >= 2
    /\ autocorrelation.tag = "Returned"
    /\ autocorrelation.val[2] = <<"fin", <<-1, 2>>>>

\* C20: for L curves of one length, the accumulator of lag n holds the dot
\* products of exactly the visited pairs (i, i + n), each once; at the end
\* entry n is that sum over all L - n pairs divided by L - n (never zero)
\* and then by the lag-0 value.
C20_PairsPerLag ==
    /\ pc = "auto_loop" =>
        \A n \in 0..(Len(series) - 1) : sums[n + 1] = LagSum(n, 0)
    /\ (pc = "auto_done" /\ Len(series) >= 1) =>
        /\ autocorrelation.tag = "Returned"
        /\ \A n \in 0..(Len(series) - 1) :
            /\ Len(series) - n > 0
            /\ autocorrelation.val[n + 1] =
                 fdiv(<<LagSum(n, 0), Len(series) - n>>, <<LagSum(0, 0), Len(series)>>)

C20_Witness ==
    /\ pc = "auto_done" /\ Len(series) = 3 /\ NonDegenerate
    /\ LagSum(1, 0) # 0 /\ LagSum(2, 0) # 0
    /\ LagSum(1, 0) # LagSum(2, 0)

(* ------------------------------------------------------------------ *)
(* densmap.rs: write_densmap / read_densmap                             *)
(* ------------------------------------------------------------------ *)
MaxCodecN == 2
MaxExtra == 1

\* An f64 or u64 is the non-negative integer of its 64 bit pattern; on the
\* stream it is WordBytes bytes, each below ByteRange, least significant
\* byte first.
WordBytes == 8
ByteRange == 256
HeaderWords == 10

RECURSIVE to_le_bytes(_, _)
to_le_bytes(v, n) ==
    IF n = 0 THEN <<>> ELSE <<v % ByteRange>> \o to_le_bytes(v \div ByteRange, n - 1)

RECURSIVE from_le_bytes(_)
from_le_bytes(b) ==
    IF b = <<>> THEN 0 ELSE b[1] + ByteRange * from_le_bytes(Tail(b))

write_word(v) == to_le_bytes(v, WordBytes)

RECURSIVE write_words(_)
write_words(vs) ==
    IF vs = <<>> THEN <<>> ELSE write_word(Head(vs)) \o write_words(Tail(vs))

\* The k-th word of a stream (k from 1), as read_f64 / read_u64 decode it.
read_word(stream, k) ==
    from_le_bytes(SubSeq(stream, WordBytes * (k - 1) + 1, WordBytes * k))

write_densmap_to_writer(d, time) ==
    write_words(d.bin_size \o d.origin \o d.shape \o d.center \o <<time>> \o d.data)

\* Every read_*()? returns the UnexpectedEof error when the stream ends
\* inside the word.
read_densmap_from_reader(stream) ==
    IF Len(stream) < WordBytes * HeaderWords THEN Err("UnexpectedEof")
    ELSE LET nx == read_word(stream, 6)
             ny == read_word(stream, 7)
             num_bins == nx * ny
         IN IF Len(stream) < WordBytes * (HeaderWords + num_bins)
            THEN Err("UnexpectedEof")
            ELSE Ok([densmap |->
                       [bin_size |-> <<read_word(stream, 1), read_word(stream, 2),
                                       read_word(stream, 3)>>,
                        origin |-> <<read_word(stream, 4), read_word(stream, 5)>>,
                        shape |-> <<nx, ny>>,
                        center |-> <<read_word(stream, 8), read_word(stream, 9)>>,
                        data |-> [k \in 1..num_bins |-> read_word(stream, HeaderWords + k)]],
                     time |-> read_word(stream, HeaderWords)])

\* flate2's gzip container: the two magic bytes, the compressed payload and
\* a trailer with the payload length.  The lossless DEFLATE code is stood in
\* for by a run-length code of (count, byte) pairs.
GzMagic == <<31, 139>>

RECURSIVE run_length(_, _)
run_length(b, k) ==
    IF k < Len(b) /\ b[k + 1] = b[1] /\ k < ByteRange - 1 THEN run_length(b, k + 1) ELSE k

RECURSIVE deflate(_)
deflate(b) ==
    IF b = <<>> THEN <<>>
    ELSE LET n == run_length(b, 1)
         IN <<n, b[1]>> \o deflate(SubSeq(b, n + 1, Len(b)))

RECURSIVE inflate(_)
inflate(c) ==
    IF Len(c) < 2 THEN <<>>
    ELSE [k \in 1..c[1] |-> c[2]] \o inflate(SubSeq(c, 3, Len(c)))

gz_encode(b) == GzMagic \o deflate(b) \o <<Len(b) % ByteRange>>

gz_decode(g) ==
    IF Len(g) < 3 \/ SubSeq(g, 1, 2) # GzMagic THEN Err("invalid gzip header")
    ELSE Ok(inflate(SubSeq(g, 3, Len(g) - 1)))

\* File::create, then the encoder chosen by the extension; `created` is
\* whether the file system lets the file be created.
write_densmap(ext, d, time, created) ==
    IF ~created THEN [result |-> Err("io"), file |-> None]
    ELSE [result |-> Ok(<<>>),
          file |-> Some(IF ext = "gz" THEN gz_encode(write_densmap_to_writer(d, time))
                        ELSE write_densmap_to_writer(d, time))]

read_densmap_any_extension(ext, f) ==
    IF ~f.some THEN Err("io") ELSE read_densmap_from_reader(f.val)

\* File::open, then the decoder chosen by the extension.
read_densmap(ext, f) ==
    IF ~f.some THEN Err("io")
    ELSE IF ext = "gz"
         THEN LET g == gz_decode(f.val)
              IN IF g.tag = "Err" THEN g ELSE read_densmap_from_reader(g.val)
         ELSE read_densmap_from_reader(f.val)

Extensions == {"gz", "dat", ""}
F64Bits == {0, 300, 65535}

CodecData(n) ==
    {[k \in 1..n |-> IF (k + s) % 2 = 0 THEN 300 ELSE v] : s \in {0, 1}, v \in {0, 65535}}

CodecGrids(nx, ny) ==
    {[bin_size |-> <<b, 300, 0>>, origin |-> <<o, 1>>, shape |-> <<nx, ny>>,
      center |-> <<1, c>>, data |-> d] :
        b \in {1, 65535}, o \in {0, 300}, c \in {0, 65535},
        d \in UNION {CodecData(nx * ny + e) : e \in 0..MaxExtra}}

CodecDensMaps ==
    UNION {CodecGrids(nx, ny) : nx \in 0..MaxCodecN, ny \in 0..MaxCodecN}

InitCodec ==
    /\ pc = "codec_start"
    /\ path_ext \in Extensions
    /\ written \in [densmap : CodecDensMaps, time : F64Bits]
    /\ file = None /\ write_result = NotRun /\ read_result = NotRun
    /\ IdleCore /\ IdleAuto /\ IdleBatch /\ IdleTrace /\ IdleDist /\ IdlePar

CallWriteDensmap ==
    /\ pc = "codec_start"
    /\ \E created \in BOOLEAN :
        LET w == write_densmap(path_ext, written.densmap, written.time, created)
        IN file' = w.file /\ write_result' = w.result
    /\ pc' = "codec_written"
    /\ UNCHANGED <<path_ext, written, read_result, coreVars, autoVars, batchVars, traceVars, distVars, parVars>>

CallReadDensmap ==
    /\ pc = "codec_written"
    /\ read_result' = read_densmap(path_ext, file)
    /\ pc' = "codec_read"
    /\ UNCHANGED <<path_ext, written, file, write_result, coreVars, autoVars, batchVars, traceVars, distVars, parVars>>

NextCodec == CallWriteDensmap \/ CallReadDensmap

SpecCodec == InitCodec /\ [][NextCodec]_vars

\* The uncompressed stream that is stored in the file.
Payload == IF path_ext = "gz" THEN gz_decode(file.val).val ELSE file.val

WellShaped(d) == Len(d.data) = d.shape[1] * d.shape[2]

LaidOutInOrder(stream, d, time) ==
    /\ Len(stream) = WordBytes * (HeaderWords + Len(d.data))
    /\ \A k \in 1..3 : read_word(stream, k) = d.bin_size[k]
    /\ \A k \in 1..2 : read_word(stream, 3 + k) = d.origin[k]
    /\ \A k \in 1..2 : read_word(stream, 5 + k) = d.shape[k]
    /\ \A k \in 1..2 : read_word(stream, 7 + k) = d.center[k]
    /\ read_word(stream, 10) = time
    /\ \A k \in 1..Len(d.data) : read_word(stream, 10 + k) = d.data[k]

\* C12: for every grid whose data has nx*ny entries and every time stamp,
\* a successful write_densmap followed by read_densmap of the same path
\* (raw, or gzip when the extension is "gz") returns the same bin_size,
\* origin, shape, center, time and data, and the stored stream holds the
\* fields in the order bin_size[3], origin[2], shape[2], center[2], time,
\* data.
C12_RoundTrip ==
    /\ (pc \in {"codec_written", "codec_read"} /\ write_result.tag = "Ok") =>
        LaidOutInOrder(Payload, written.densmap, written.time)
    /\ (pc = "codec_read" /\ write_result.tag = "Ok" /\ WellShaped(written.densmap)) =>
        read_result = Ok(written)

C12_Witness ==
    /\ pc = "codec_read" /\ path_ext = "gz"
    /\ WellShaped(written.densmap) /\ Len(written.densmap.data) = 4
    /\ written.densmap.data[1] # written.densmap.data[2]
    /\ read_result = Ok(written)

C12_WitnessRaw ==
    /\ pc = "codec_read" /\ path_ext = "dat"
    /\ WellShaped(written.densmap) /\ Len(written.densmap.data) = 2
    /\ file.some /\ Len(file.val) = 96
    /\ read_result = Ok(written)

(* ------------------------------------------------------------------ *)
(* main.rs: the loop over the density maps of a batch                   *)
(* ------------------------------------------------------------------ *)
MaxFiles == 3

BatchHistogram(ys) == [x |-> [k \in 1..Len(ys) |-> k], y |-> ys]

\* What a file of the batch holds: whether it can be read, whether the
\* requested interface file can be written, and the radial distribution
\* that get_radial_density_distribution finds for its smoothed grid.
FileKinds ==
    {[readable |-> TRUE, writable |-> TRUE,
      radial |-> BatchHistogram(<<F(2), F(2), F(2), F(2), F(2), F(2), F(0)>>)],
     [readable |-> TRUE, writable |-> TRUE,
      radial |-> BatchHistogram(<<F(2), F(2), F(2), F(2), F(2), F(2), F(2)>>)],
     [readable |-> TRUE, writable |-> TRUE, radial |-> BatchHistogram(<<NaN, NaN>>)],
     [readable |-> TRUE, writable |-> TRUE, radial |-> BatchHistogram(<<F(1)>>)],
     [readable |-> TRUE, writable |-> FALSE,
      radial |-> BatchHistogram(<<F(2), F(2), F(2), F(2), F(2), F(2), F(0)>>)],
     [readable |-> FALSE, writable |-> TRUE, radial |-> BatchHistogram(<<NaN, NaN>>)]}

\* The time stamp stored in the k-th file.
TimeOf(k) == 10 * k

\* sample_interface(&smoothed_densmap, radius) with the radius subtracted:
\* the contact line of time step k traced from base radius r.
ContactLine(k, r) == [step |-> k, base_radius |-> r]

\* The loop variables after the body has run for file number k with the
\* content f; exit says how main left the loop, NotRun if it did not.
batch_iteration_time_first(st, k, f) ==
    IF ~f.readable THEN [st EXCEPT !.exit = Err("io")]
    ELSE LET r == get_radius_from_distribution(f.radial)
             t == [st EXCEPT !.times = Append(@, TimeOf(k))]
         IN IF r.tag = "Panic" THEN [st EXCEPT !.exit = Panic]
            ELSE IF r.tag # "Ok" THEN t
            ELSE LET pushed == [t EXCEPT !.radius_time_series = Append(@, r.val),
                                         !.traced = Append(@, k)]
                 IN IF ~f.writable THEN [pushed EXCEPT !.exit = Err("io")]
                    ELSE [pushed EXCEPT !.contact_line_per_time =
                                            Append(@, ContactLine(k, r.val))]

batch_iteration(st, k, f) ==
    IF ~f.readable THEN [st EXCEPT !.exit = Err("io")]
    ELSE LET r == get_radius_from_distribution(f.radial)
         IN IF r.tag = "Panic" THEN [st EXCEPT !.exit = Panic]
            ELSE IF r.tag # "Ok" THEN st
            ELSE LET pushed == [st EXCEPT !.radius_time_series = Append(@, r.val),
                                          !.times = Append(@, TimeOf(k)),
                                          !.traced = Append(@, k)]
                 IN IF ~f.writable THEN [pushed EXCEPT !.exit = Err("io")]
                    ELSE [pushed EXCEPT !.contact_line_per_time =
                                            Append(@, ContactLine(k, r.val))]

InitBatch ==
    /\ pc = "batch_loop"
    /\ filenames \in SeqsUpTo(FileKinds, MaxFiles)
    /\ fi = 0
    /\ radius_time_series = <<>> /\ times = <<>> /\ contact_line_per_time = <<>>
    /\ traced = <<>> /\ main_result = NotRun
    /\ IdleCore /\ IdleAuto /\ IdleCodec /\ IdleTrace /\ IdleDist /\ IdlePar

\* One iteration of `for (i, filename) in filenames.into_iter().enumerate()`.
ProcessFile ==
    /\ pc = "batch_loop"
    /\ fi < Len(filenames)
    /\ LET st == batch_iteration(
                    [radius_time_series |-> radius_time_series, times |-> times,
                     contact_line_per_time |-> contact_line_per_time,
                     traced |-> traced, exit |-> NotRun],
                    fi + 1, filenames[fi + 1])
       IN /\ radius_time_series' = st.radius_time_series
          /\ times' = st.times
          /\ contact_line_per_time' = st.contact_line_per_time
          /\ traced' = st.traced
          /\ main_result' = st.exit
          /\ IF st.exit = NotRun
             THEN fi' = fi + 1 /\ pc' = "batch_loop"
             ELSE fi' = fi /\ pc' = "batch_exit"
    /\ UNCHANGED <<filenames, coreVars, autoVars, codecVars, traceVars, distVars, parVars>>

\* The iterator is exhausted.
FinishBatch ==
    /\ pc = "batch_loop"
    /\ fi >= Len(filenames)
    /\ pc' = "batch_done"
    /\ UNCHANGED <<batchVars, coreVars, autoVars, codecVars, traceVars, distVars, parVars>>

NextBatch == ProcessFile \/ FinishBatch

SpecBatch == InitBatch /\ [][NextBatch]_vars

RadiusOfStep(k) == get_radius_from_distribution(filenames[k].radial)

\* The time steps among the first n whose radius extraction succeeded.
RECURSIVE OkSteps(_)
OkSteps(n) ==
    IF n = 0 THEN <<>>
    ELSE OkSteps(n - 1) \o (IF RadiusOfStep(n).tag = "Ok" THEN <<n>> ELSE <<>>)

\* C13: a time step whose radius extraction returns an error appends
\* nothing, is not traced and does not end the loop; after every iteration
\* radius_time_series, times and contact_line_per_time have one entry per
\* successful step so far, in input order.
C13_ErrorStepSkipped ==
    /\ pc \in {"batch_loop", "batch_done"} =>
        LET ok == OkSteps(fi)
        IN /\ Len(radius_time_series) = Len(ok)
           /\ Len(times) = Len(ok)
           /\ Len(contact_line_per_time) = Len(ok)
           /\ traced = ok
           /\ \A n \in 1..Len(ok) :
                /\ times[n] = TimeOf(ok[n])
                /\ radius_time_series[n] = RadiusOfStep(ok[n]).val
                /\ contact_line_per_time[n] = ContactLine(ok[n], RadiusOfStep(ok[n]).val)
    /\ \A n \in 1..Len(traced) : RadiusOfStep(traced[n]).tag = "Ok"
    /\ pc = "batch_exit" =>
        (filenames[fi + 1].readable => RadiusOfStep(fi + 1).tag # "Err")
    /\ pc = "batch_done" => fi = Len(filenames)

C13_Witness ==
    /\ pc = "batch_done" /\ Len(filenames) = 3
    /\ RadiusOfStep(1).tag = "Ok" /\ RadiusOfStep(2).tag = "Err"
    /\ RadiusOfStep(3).tag = "Ok"
    /\ times = <<10, 30>> /\ traced = <<1, 3>>
    /\ radius_time_series = <<6, 7>>

(* ------------------------------------------------------------------ *)
(* analysis/sample_interface.rs: the interface search along one angle   *)
(* ------------------------------------------------------------------ *)
MaxTraceN == 2
MaxBase == 4
MaxSeek == 8

\* (x / dx).floor() as isize, (y / dy).floor() as isize, then tuple2index;
\* x and y are fractions <<num, den>> of the length unit.
coord2index(x, y, bin_size, s) ==
    tuple2index(x[1] \div (x[2] * bin_size[1]), y[1] \div (y[2] * bin_size[2]), s)

\* 0.5 * data.iter().fold(0.0, |acc, &v| acc.max(v))
get_density_cutoff(d) == Rat(fold_max(0, d.data), 2)

\* data[i] >= cutoff
is_filled(v, cutoff) == v * cutoff[2] >= cutoff[1]

\* dx_bin.min(dy_bin)
dr_abs_of(d) == IF d.bin_size[1] <= d.bin_size[2] THEN d.bin_size[1] ELSE d.bin_size[2]

\* coord2index(x0 + radius * dx, y0 + radius * dy, ..) for the grid d.
sample_at(d, a, r) ==
    LET x0 == d.center[1] - d.origin[1]
        y0 == d.center[2] - d.origin[2]
    IN coord2index(<<x0 * a.cos[2] + r * a.cos[1], a.cos[2]>>,
                   <<y0 * a.sin[2] + r * a.sin[1], a.sin[2]>>,
                   d.bin_size, d.shape)

dr_of_increasing(dir, dr_abs) == dr_abs

\* let dr = match direction { Increasing => dr_abs, Decreasing => -dr_abs }
dr_of(dir, dr_abs) == IF dir = "Increasing" THEN dr_abs ELSE -dr_abs

step_outcome_always_revert(dir, filled) ==
    IF dir = "Increasing" /\ ~filled THEN "revert"
    ELSE IF dir = "Decreasing" /\ filled THEN "revert"
    ELSE "continue"

\* match (direction, is_filled) of the while loop.
step_outcome(dir, filled) ==
    IF dir = "Increasing" /\ ~filled THEN "revert"
    ELSE IF dir = "Decreasing" /\ filled THEN "break"
    ELSE "continue"

reverted_twice(r, dr) == r - 2 * dr

\* radius -= dr
reverted(r, dr) == r - dr

\* Unit vectors with rational components: the axes and two 3-4-5 diagonals.
Angles ==
    {[cos |-> <<1, 1>>, sin |-> <<0, 1>>], [cos |-> <<0, 1>>, sin |-> <<1, 1>>],
     [cos |-> <<-1, 1>>, sin |-> <<0, 1>>], [cos |-> <<0, 1>>, sin |-> <<-1, 1>>],
     [cos |-> <<4, 5>>, sin |-> <<3, 5>>], [cos |-> <<-3, 5>>, sin |-> <<-4, 5>>]}

\* Densities: two graded patterns, a single filled bin at either end of the
\* data, and the all-zero grid (whose cutoff is 0).
TraceData(n) ==
    {[k \in 1..n |-> (k + c) % 3] : c \in {0, 1}}
    \cup {[k \in 1..n |-> IF k = p THEN 2 ELSE 0] : p \in {0, 1, n}}

TraceGrids(nx, ny) ==
    {[bin_size |-> <<b, 2, 0>>, origin |-> <<1, 0>>, shape |-> <<nx, ny>>,
      center |-> <<cx, cy>>, data |-> d] :
        b \in {2, 4}, cx \in {0, 2, 4}, cy \in {1, 3}, d \in TraceData(nx * ny)}

TraceMaps == UNION {TraceGrids(nx, ny) : nx \in 0..MaxTraceN, ny \in 1..MaxTraceN}

\* sample_interface calls with base_radius > 0 only: for other radii the list
\* of angles is empty.
InitTrace ==
    /\ pc = "seek"
    /\ trace_map \in TraceMaps
    /\ angle \in Angles
    /\ base_radius \in 1..MaxBase
    /\ walk_radius = base_radius
    /\ direction = "None" /\ samples = <<>> /\ stop = "None"
    /\ IdleCore /\ IdleAuto /\ IdleCodec /\ IdleBatch /\ IdleDist /\ IdlePar

\* get_initial_radius_and_direction: the sample is outside the grid.
SeekStep ==
    /\ pc = "seek"
    /\ ~sample_at(trace_map, angle, walk_radius).some
    /\ walk_radius > -MaxSeek
    /\ walk_radius' = walk_radius - dr_abs_of(trace_map)
    /\ pc' = "seek"
    /\ UNCHANGED <<trace_map, angle, base_radius, direction, samples, stop,
                   coreVars, autoVars, codecVars, batchVars, distVars, parVars>>

\* get_initial_radius_and_direction: the sample is inside the grid.
SeekFound ==
    /\ pc = "seek"
    /\ LET hit == sample_at(trace_map, angle, walk_radius)
       IN /\ hit.some
          /\ direction' =
               IF is_filled(trace_map.data[hit.val + 1], get_density_cutoff(trace_map))
               THEN "Increasing" ELSE "Decreasing"
    /\ pc' = "walk"
    /\ UNCHANGED <<trace_map, angle, base_radius, walk_radius, samples, stop,
                   coreVars, autoVars, codecVars, batchVars, distVars, parVars>>

\* One iteration of `while radius >= dr`.
WalkStep ==
    /\ pc = "walk"
    /\ LET dr == dr_of(direction, dr_abs_of(trace_map))
           r == walk_radius + dr
           hit == sample_at(trace_map, angle, r)
           outcome ==
               IF hit.some
               THEN step_outcome(direction,
                        is_filled(trace_map.data[hit.val + 1], get_density_cutoff(trace_map)))
               ELSE "outside"
       IN /\ walk_radius >= dr
          /\ samples' = Append(samples, r)
          /\ walk_radius' = IF outcome \in {"revert", "outside"} THEN reverted(r, dr) ELSE r
          /\ IF outcome = "continue"
             THEN pc' = "walk" /\ stop' = stop
             ELSE pc' = "trace_done" /\ stop' = outcome
    /\ UNCHANGED <<trace_map, angle, base_radius, direction,
                   coreVars, autoVars, codecVars, batchVars, distVars, parVars>>

\* The loop condition `radius >= dr` fails.
WalkExit ==
    /\ pc = "walk"
    /\ ~(walk_radius >= dr_of(direction, dr_abs_of(trace_map)))
    /\ pc' = "trace_done"
    /\ stop' = "guard"
    /\ UNCHANGED <<trace_map, angle, base_radius, walk_radius, direction, samples,
                   coreVars, autoVars, codecVars, batchVars, distVars, parVars>>

NextTrace == SeekStep \/ SeekFound \/ WalkStep \/ WalkExit

SpecTrace == InitTrace /\ [][NextTrace]_vars

\* The loops are sequential code: a step that can be taken is taken.
SpecTraceFair == SpecTrace /\ WF_vars(NextTrace)

DrAbs == dr_abs_of(trace_map)

InGrid(r) == sample_at(trace_map, angle, r).some

Filled(r) ==
    /\ InGrid(r)
    /\ is_filled(trace_map.data[sample_at(trace_map, angle, r).val + 1],
                 get_density_cutoff(trace_map))

Walking == pc \in {"walk", "trace_done"}

\* The radius the first search loop handed to the second one.
StartRadius ==
    IF samples = <<>> THEN walk_radius
    ELSE samples[1] - (IF direction = "Increasing" THEN DrAbs ELSE -DrAbs)

\* C14: the first search loop ends for every grid, center, angle and base
\* radius; it steps inward only while the sample is outside the grid and
\* the radius has not reached zero, so its radius is never negative.
C14_SeekStopsAtZero ==
    /\ pc = "seek" => walk_radius >= 0
    /\ Walking => StartRadius >= 0
    /\ pc = "seek" => (InGrid(walk_radius) \/ walk_radius > -MaxSeek)

\* What the first loop does: it ends only on a sample inside the grid, at a
\* radius of any sign.
C14_SeekEndsInsideGrid ==
    Walking => (InGrid(StartRadius) /\ StartRadius <= base_radius)

\* A first loop that has passed the center and is still outside the grid.
C14_SeekRunsAway == pc = "seek" /\ walk_radius <= -MaxSeek /\ ~InGrid(walk_radius)

\* C15: in both directions a step of the second loop is taken only from a
\* radius of at least one step size, no sample is taken at a radius below
\* zero and the radius returned is never negative.
C15_WalkGuard ==
    /\ \A n \in 1..Len(samples) :
        /\ samples[n] >= 0
        /\ direction = "Increasing" => samples[n] - DrAbs >= DrAbs
        /\ direction = "Decreasing" => samples[n] + DrAbs >= DrAbs
    /\ pc = "trace_done" => walk_radius >= 0

\* The part of C15 the code keeps: the outward walk steps only from a radius
\* of at least one step size.
C15_OutwardWalkGuard ==
    direction = "Increasing" =>
        \A n \in 1..Len(samples) : samples[n] - DrAbs >= DrAbs

C15_NegativeRadiusReturned ==
    /\ pc = "trace_done" /\ direction = "Decreasing" /\ walk_radius < 0
    /\ Len(samples) >= 2 /\ StartRadius >= 0

\* C16: once the first loop has chosen a direction, the second loop ends
\* after finitely many steps, the direction never changes and no step moves
\* the radius against it.
C16_WalkTerminates ==
    /\ (pc = "walk") ~> (pc = "trace_done")
    /\ [][pc = "walk" =>
            /\ direction' = direction
            /\ direction = "Increasing" => walk_radius' >= walk_radius
            /\ direction = "Decreasing" => walk_radius' <= walk_radius]_vars

C16_Witness ==
    /\ pc = "trace_done" /\ Len(samples) >= 3
    /\ walk_radius # StartRadius

\* C17: the direction is increasing exactly when the first sample inside the
\* grid is at or above the cutoff; the outward walk returns the last radius
\* whose sample was inside the grid and at or above the cutoff, every
\* earlier sample having been so too, and on the first sample below the
\* cutoff or outside the grid it goes back exactly one step and stops.
C17_OutwardWalk ==
    /\ Walking => (direction = "Increasing" <=> Filled(StartRadius))
    /\ (Walking /\ direction = "Increasing") =>
        /\ Filled(walk_radius)
        /\ \A n \in 1..(Len(samples) - 1) : Filled(samples[n])
        /\ pc = "walk" => \A n \in 1..Len(samples) : Filled(samples[n])
    /\ (pc = "trace_done" /\ direction = "Increasing" /\ samples # <<>>) =>
        /\ ~Filled(samples[Len(samples)])
        /\ walk_radius = samples[Len(samples)] - DrAbs
        /\ stop = (IF InGrid(samples[Len(samples)]) THEN "revert" ELSE "outside")

C17_Witness ==
    /\ pc = "trace_done" /\ direction = "Increasing" /\ stop = "revert"
    /\ Len(samples) >= 2 /\ walk_radius > StartRadius

\* C18: the direction is decreasing exactly when the first sample inside the
\* grid is below the cutoff; the inward walk stops without going back at
\* its first sample at or above the cutoff and returns that radius, every
\* earlier sample having been inside the grid and below the cutoff; a
\* sample outside the grid sends it back one step, to the last radius
\* inside the grid.
C18_InwardWalk ==
    /\ Walking => (direction = "Decreasing" <=> (InGrid(StartRadius) /\ ~Filled(StartRadius)))
    /\ (Walking /\ direction = "Decreasing") =>
        /\ \A n \in 1..(Len(samples) - 1) : InGrid(samples[n]) /\ ~Filled(samples[n])
        /\ InGrid(walk_radius)
    /\ (pc = "trace_done" /\ direction = "Decreasing" /\ samples # <<>>) =>
        LET last == samples[Len(samples)]
        IN /\ Filled(last) => (stop = "break" /\ walk_radius = last)
           /\ ~InGrid(last) =>
                /\ stop = "outside"
                /\ walk_radius = last + DrAbs
                /\ ~Filled(walk_radius)
           /\ (InGrid(last) /\ ~Filled(last)) => (stop = "guard" /\ walk_radius = last)

C18_Witness ==
    /\ pc = "trace_done" /\ direction = "Decreasing" /\ stop = "break"
    /\ Len(samples) >= 2 /\ walk_radius >= 0

C18_WitnessOutside ==
    /\ pc = "trace_done" /\ direction = "Decreasing" /\ stop = "outside"
    /\ Len(samples) >= 2

(* ------------------------------------------------------------------ *)
(* analysis/radial_density.rs: get_radial_density_distribution          *)
(* ------------------------------------------------------------------ *)
MaxDistN == 3

\* Lengths of this part are integers of half the length unit, so that
\* dr = 0.5 * (dx + dy) is an integer; rmin = 1.0 is 2 of them.
RMin == 2

\* ((r - rmin) / dr) as usize for r = sqrt(r2) >= rmin, counted up from n:
\* the largest n with rmin + n * dr <= r.
RECURSIVE floor_index(_, _, _)
floor_index(r2, dr, n) ==
    IF (RMin + (n + 1) * dr) * (RMin + (n + 1) * dr) <= r2
    THEN floor_index(r2, dr, n + 1)
    ELSE n

calc_maximum_radius2_far_corner(d) ==
    LET xmax == d.origin[1] + d.bin_size[1] * d.shape[1]
        ymax == d.origin[2] + d.bin_size[2] * d.shape[2]
    IN (d.center[1] - xmax) * (d.center[1] - xmax)
       + (d.center[2] - ymax) * (d.center[2] - ymax)

\* calc_maximum_radius before the square root: rmax2.
calc_maximum_radius2(d) ==
    LET xmin == d.origin[1]
        ymin == d.origin[2]
        xmax == xmin + d.bin_size[1] * d.shape[1]
        ymax == ymin + d.bin_size[2] * d.shape[2]
        x0 == d.center[1]
        y0 == d.center[2]
        sq(a) == a * a
        max(a, b) == IF b > a THEN b ELSE a
    IN max(max(max(sq(x0 - xmin) + sq(y0 - ymin), sq(x0 - xmin) + sq(y0 - ymax)),
               sq(x0 - xmax) + sq(y0 - ymin)),
           sq(x0 - xmax) + sq(y0 - ymax))

\* A negative (rmax - rmin) / dr becomes 0 in the cast to usize.
get_radius_values_for_histogram(d) ==
    LET dr == (d.bin_size[1] + d.bin_size[2]) \div 2
        rmax2 == calc_maximum_radius2(d)
        num_values == IF rmax2 < RMin * RMin THEN 0 ELSE floor_index(rmax2, dr, 0)
    IN [rmin |-> RMin, dr |-> dr, values |-> [k \in 1..(num_values + 1) |-> RMin + dr * (k - 1)]]

\* Squared distance from the center to the position (dx * ix, dy * iy) of
\* the bin with 0-based index k.
bin_distance2(d, k) ==
    LET t == index2tuple(k, d.shape).val
        x0 == d.center[1] - d.origin[1]
        y0 == d.center[2] - d.origin[2]
    IN (x0 - d.bin_size[1] * t[1]) * (x0 - d.bin_size[1] * t[1])
       + (y0 - d.bin_size[2] * t[2]) * (y0 - d.bin_size[2] * t[2])

\* The for_each over the data from 0-based index k on; index2tuple(..).unwrap()
\* and histogram[n] abort when they are out of range.
RECURSIVE get_radial_mass_sum_of_densmap(_, _, _, _)
get_radial_mass_sum_of_densmap(d, dr, histogram, k) ==
    IF k >= Len(d.data) THEN Returned(histogram)
    ELSE IF ~index2tuple(k, d.shape).some THEN Panic
    ELSE LET r2 == bin_distance2(d, k)
         IN IF r2 < RMin * RMin
            THEN get_radial_mass_sum_of_densmap(d, dr, histogram, k + 1)
            ELSE LET n == floor_index(r2, dr, 0)
                 IN IF n >= Len(histogram) THEN Panic
                    ELSE get_radial_mass_sum_of_densmap(d, dr,
                             [histogram EXCEPT ![n + 1] = @ + d.data[k + 1]], k + 1)

\* v / (2 pi r), kept as the fraction v / (2 r) in units of 1 / pi.
scale_histogram_to_per_unit_length(histogram, rs) ==
    LET n == IF Len(histogram) <= Len(rs) THEN Len(histogram) ELSE Len(rs)
    IN [k \in 1..n |-> Rat(histogram[k], 2 * rs[k])]

get_radial_density_distribution(d) ==
    LET rv == get_radius_values_for_histogram(d)
        histogram == get_radial_mass_sum_of_densmap(
                         d, rv.dr, [k \in 1..Len(rv.values) |-> 0], 0)
    IN IF histogram.tag = "Panic" THEN Panic
       ELSE Returned([x |-> rv.values,
                      y |-> scale_histogram_to_per_unit_length(histogram.val, rv.values)])

DistGrids(nx, ny) ==
    {[bin_size |-> <<bx, by, 0>>, origin |-> <<1, 0>>, shape |-> <<nx, ny>>,
      center |-> <<cx, cy>>, data |-> DataOf(nx * ny, a, b)] :
        bx \in {2, 4}, by \in {2, 4}, cx \in {-2, 1, 4, 9}, cy \in {0, 3, 7},
        a \in {0, 1}, b \in {1, 2}}

DistMaps == UNION {DistGrids(nx, ny) : nx \in 0..MaxDistN, ny \in 0..MaxDistN}

InitDist ==
    /\ pc = "dist_start"
    /\ radial_map \in DistMaps
    /\ distribution = NotRun
    /\ IdleCore /\ IdleAuto /\ IdleCodec /\ IdleBatch /\ IdleTrace /\ IdlePar

CallGetRadialDensityDistribution ==
    /\ pc = "dist_start"
    /\ distribution' = get_radial_density_distribution(radial_map)
    /\ pc' = "dist_done"
    /\ UNCHANGED <<radial_map, coreVars, autoVars, codecVars, batchVars, traceVars, parVars>>

NextDist == CallGetRadialDensityDistribution

SpecDist == InitDist /\ [][NextDist]_vars

DistDr == (radial_map.bin_size[1] + radial_map.bin_size[2]) \div 2

\* The corners of the grid, in absolute coordinates.
Corners ==
    {<<radial_map.origin[1] + radial_map.bin_size[1] * radial_map.shape[1] * ex,
       radial_map.origin[2] + radial_map.bin_size[2] * radial_map.shape[2] * ey>> :
        ex \in {0, 1}, ey \in {0, 1}}

CornerDistance2(c) ==
    (radial_map.center[1] - c[1]) * (radial_map.center[1] - c[1])
    + (radial_map.center[2] - c[2]) * (radial_map.center[2] - c[2])

\* Squared distance to the farthest corner.
RMax2 == CHOOSE m \in {CornerDistance2(c) : c \in Corners} :
             \A c \in Corners : CornerDistance2(c) <= m

\* n = floor((sqrt(r2) - rmin) / dr) for sqrt(r2) >= rmin.
IsFloorIndex(n, r2) ==
    /\ n >= 0
    /\ (RMin + n * DistDr) * (RMin + n * DistDr) <= r2
    /\ r2 < (RMin + (n + 1) * DistDr) * (RMin + (n + 1) * DistDr)

\* The 0-based grid bins at distance >= rmin that belong to histogram bin n.
BinsOf(n) ==
    {k \in 0..(Len(radial_map.data) - 1) :
        bin_distance2(radial_map, k) >= RMin * RMin
        /\ IsFloorIndex(n, bin_distance2(radial_map, k))}

RECURSIVE MassOf(_)
MassOf(ks) ==
    IF ks = {} THEN 0
    ELSE LET k == CHOOSE k \in ks : TRUE
         IN radial_map.data[k + 1] + MassOf(ks \ {k})

\* C19: for every grid whose data has nx*ny entries and any center, every
\* grid bin at distance r >= rmin is added exactly once, to histogram bin
\* floor((r - rmin) / dr), which always exists (0 <= index <=
\* floor((rmax - rmin) / dr), rmax the distance to the farthest corner);
\* bins with r < rmin are added nowhere; x and y have one length and x is
\* strictly increasing.
C19_HistogramIndexInRange ==
    (pc = "dist_done" /\ WellShaped(radial_map)) =>
        /\ distribution.tag = "Returned"
        /\ LET h == distribution.val
           IN /\ Len(h.x) = Len(h.y)
              /\ Len(h.x) >= 1
              /\ \A n \in 1..(Len(h.x) - 1) : h.x[n] < h.x[n + 1]
              /\ \A n \in 1..Len(h.x) : h.x[n] = RMin + (n - 1) * DistDr
              /\ RMax2 >= RMin * RMin => IsFloorIndex(Len(h.x) - 1, RMax2)
              /\ \A k \in 0..(Len(radial_map.data) - 1) :
                    bin_distance2(radial_map, k) >= RMin * RMin =>
                        \E n \in 0..(Len(h.x) - 1) : k \in BinsOf(n)
              /\ \A n \in 1..Len(h.y) : h.y[n] = Rat(MassOf(BinsOf(n - 1)), 2 * h.x[n])

C19_Witness ==
    /\ pc = "dist_done" /\ WellShaped(radial_map)
    /\ distribution.tag = "Returned"
    /\ Len(distribution.val.x) >= 3
    /\ Cardinality(BinsOf(1)) >= 2
    /\ \E k \in 0..(Len(radial_map.data) - 1) : bin_distance2(radial_map, k) < RMin * RMin
    /\ distribution.val.y[2][1] > 0

(* ------------------------------------------------------------------ *)
(* average.rs: every bin is its own neighbour                           *)
(* ------------------------------------------------------------------ *)
\* C22: for every radius >= 0 and every grid, the neighbour list of each
\* bin contains the bin itself, so no bin gets the 0.0 of an empty list,
\* and smoothing a grid of one value leaves every bin unchanged, the
\* boundary bins (part of whose sieve is outside the grid) included.
C22_SelfIsNeighbour ==
    (pc = "smooth_done" /\ radius >= 0) =>
        /\ Len(neighbours) = densmap.shape[1] * densmap.shape[2]
        /\ \A k \in 1..Len(neighbours) :
            /\ (k - 1) \in SeqToSet(neighbours[k])
            /\ neighbours[k] # <<>>
            /\ IsMeanOf(smoothed.data[k], densmap.data, neighbours[k])
        /\ Uniform(densmap.data) =>
            \A k \in 1..Len(densmap.data) : smoothed.data[k] = <<densmap.data[k], 1>>

\* A boundary bin of a uniform non-zero grid that loses part of its sieve.
C22_Witness ==
    /\ pc = "smooth_done" /\ radius >= 0
    /\ Uniform(densmap.data)
    /\ \E k \in 1..Len(densmap.data) :
        /\ ~Interior(k - 1, densmap.shape, sieve)
        /\ Len(neighbours[k]) > 1
        /\ Len(neighbours[k]) < Len(sieve)
        /\ densmap.data[k] > 0
        /\ smoothed.data[k] = <<densmap.data[k], 1>>

\* Radius zero: the sieve is the zero offset alone.
C22_WitnessRadiusZero ==
    /\ pc = "smooth_done" /\ radius = 0
    /\ Len(neighbours) > 1
    /\ \A k \in 1..Len(neighbours) : neighbours[k] = <<k - 1>>
    /\ ~Uniform(densmap.data)

(* ------------------------------------------------------------------ *)
(* average.rs: the per-bin workers of the two par_iter pipelines        *)
(* ------------------------------------------------------------------ *)
MaxParN == 2

slot_of_completion_order(k, slots) ==
    Cardinality({n \in 1..Len(slots) : slots[n].some}) + 1

\* collect() of an indexed parallel iterator: the item of task k (from 1)
\* is written to position k of the output, whenever the task is run.
slot_of(k, slots) == k

Empty(n) == [k \in 1..n |-> None]

Collected(slots) == [k \in 1..Len(slots) |-> slots[k].val]

ParData(n) == {[k \in 1..n |-> k], [k \in 1..n |-> (2 * k) % 5]}

ParGrids(nx, ny) ==
    {[bin_size |-> <<1, dy, 0>>, origin |-> <<0, 0>>, shape |-> <<nx, ny>>,
      center |-> <<1, 1>>, data |-> d] :
        dy \in {1, 2}, d \in ParData(nx * ny)}

ParMaps == UNION {ParGrids(nx, ny) : nx \in 0..MaxParN, ny \in 1..2}

ParRadii == {-1, 0, 1, 2}

restOfPar ==
    <<indexVars, percVars, radVars, resampleVars, bins, average,
      autoVars, codecVars, batchVars, traceVars, distVars>>

InitPar ==
    /\ pc = "par_start"
    /\ densmap \in ParMaps
    /\ radius \in ParRadii
    /\ sieve = <<>> /\ neighbours = <<>>
    /\ smoothed = EmptyDensMap /\ bins = <<>> /\ average = <<0, 1>>
    /\ IdlePar
    /\ IdleIndex /\ IdlePerc /\ IdleRad /\ IdleResample
    /\ IdleAuto /\ IdleCodec /\ IdleBatch /\ IdleTrace /\ IdleDist

\* get_system_bin_neighbours: the sieve, then one task per bin of 0..nx*ny.
StartNeighbours ==
    /\ pc = "par_start"
    /\ sieve' = get_averaging_bin_sieve(radius, densmap.bin_size)
    /\ pending' = 1..(densmap.shape[1] * densmap.shape[2])
    /\ nb_slots' = Empty(densmap.shape[1] * densmap.shape[2])
    /\ pc' = "par_neighbours"
    /\ UNCHANGED <<densmap, radius, neighbours, smoothed, avg_slots, restOfPar>>

\* Some worker runs |i| get_bin_neighbours(i, shape, &sieve) for some bin.
NeighbourWorker ==
    /\ pc = "par_neighbours"
    /\ \E k \in pending :
        /\ nb_slots' = [nb_slots EXCEPT ![slot_of(k, nb_slots)] =
                            Some(get_bin_neighbours(k - 1, densmap.shape, sieve))]
        /\ pending' = pending \ {k}
    /\ pc' = "par_neighbours"
    /\ UNCHANGED <<densmap, radius, sieve, neighbours, smoothed, avg_slots, restOfPar>>

\* collect() returns; get_averaged_system starts one task per neighbour list.
StartAverages ==
    /\ pc = "par_neighbours"
    /\ pending = {}
    /\ neighbours' = Collected(nb_slots)
    /\ pending' = 1..Len(nb_slots)
    /\ avg_slots' = Empty(Len(nb_slots))
    /\ pc' = "par_average"
    /\ UNCHANGED <<densmap, radius, sieve, smoothed, nb_slots, restOfPar>>

\* Some worker runs |bins| average_value_of_bins(&data, &bins) for some bin.
AverageWorker ==
    /\ pc = "par_average"
    /\ \E k \in pending :
        /\ avg_slots' = [avg_slots EXCEPT ![slot_of(k, avg_slots)] =
                            Some(average_value_of_bins(densmap.data, neighbours[k]))]
        /\ pending' = pending \ {k}
    /\ pc' = "par_average"
    /\ UNCHANGED <<densmap, radius, sieve, neighbours, smoothed, nb_slots, restOfPar>>

\* collect() returns and the DensMap is built from the averaged data.
FinishSmooth ==
    /\ pc = "par_average"
    /\ pending = {}
    /\ smoothed' = [densmap EXCEPT !.data = Collected(avg_slots)]
    /\ pc' = "par_done"
    /\ UNCHANGED <<densmap, radius, sieve, neighbours, nb_slots, avg_slots, pending,
                   restOfPar>>

NextPar ==
    StartNeighbours \/ NeighbourWorker \/ StartAverages \/ AverageWorker \/ FinishSmooth

SpecPar == InitPar /\ [][NextPar]_vars

\* The average of bin k (from 1) computed from the original input values.
AverageFromInput(k) ==
    LET nb == InGridNeighbours(k - 1, densmap.shape, sieve)
    IN IF nb = {} THEN <<0, 1>>
       ELSE Rat(LET RECURSIVE total(_)
                    total(ks) == IF ks = {} THEN 0
                                 ELSE LET m == CHOOSE m \in ks : TRUE
                                      IN densmap.data[m + 1] + total(ks \ {m})
                IN total(nb),
                Cardinality(nb))

\* C21: whatever the order in which the workers run the per-bin tasks, output
\* position i holds the average of bin i computed from the original input
\* values, and the smoothed grid has exactly nx*ny entries in index order:
\* it is the grid the sequential computation returns.
C21_OrderIndependent ==
    /\ pc = "par_average" =>
        \A k \in 1..Len(avg_slots) :
            avg_slots[k].some => avg_slots[k].val = AverageFromInput(k)
    /\ pc = "par_done" =>
        /\ Len(smoothed.data) = densmap.shape[1] * densmap.shape[2]
        /\ \A k \in 1..Len(smoothed.data) : smoothed.data[k] = AverageFromInput(k)
        /\ smoothed = smoothen_data_of_bins_within_radius(densmap, radius)

\* The last bin was averaged before the first one, on a grid where the two
\* averages differ.
C21_Witness ==
    /\ pc = "par_average"
    /\ Len(avg_slots) >= 3
    /\ avg_slots[Len(avg_slots)].some /\ ~avg_slots[1].some
    /\ Len(neighbours[1]) > 1
    /\ AverageFromInput(1) # AverageFromInput(Len(avg_slots))

C21_WitnessDone ==
    /\ pc = "par_done" /\ Len(smoothed.data) = 4 /\ radius = 1
    /\ smoothed.data[1] # smoothed.data[4]

====
